---- MODULE Spec2Model ----
(***************************************************************************)
(* Model of modulus/sym/models/interpolation.py: one call of               *)
(* interpolation(query_points, context_grid, grid, interpolation_type,     *)
(* mem_speed_trade), followed statement by statement.                      *)
(*                                                                         *)
(* Numbers.  Coordinates are integers in a length unit chosen so that dx   *)
(* of every axis is a whole number; weights and results are exact          *)
(* rationals <<numerator, denominator>> in lowest terms.  The float32      *)
(* rounding of the tensors is not modelled.  exp() of the gaussian kernel  *)
(* is tabulated (ExpTable).                                                *)
(*                                                                         *)
(* Tensors.  A tensor is [shape |-> <<s1,..,sr>>, data |-> row-major       *)
(* sequence].  The query axis carries one row: every statement of the      *)
(* function treats the rows of query_points independently.                 *)
(***************************************************************************)
EXTENDS Integers, Sequences, FiniteSets, TLC

VARIABLES pc, err, args, stride, meshgrid, context_grid, center_idx, idx,
          mesh_grid_idx, dist_vec, weights, context_grid_idx,
          interpolated_points

vars == <<pc, err, args, stride, meshgrid, context_grid, center_idx, idx,
          mesh_grid_idx, dist_vec, weights, context_grid_idx,
          interpolated_points>>

-----------------------------------------------------------------------------
(* Bounds of the explored inputs.                                          *)

\* largest per-axis resolution of the explored grids
MaxRes == 3
\* how many spacings beyond [min, max] the explored queries reach
QMargin == 2
\* channels of the explored context grids
NrChannels == 3

-----------------------------------------------------------------------------
(* Integer and rational arithmetic.                                        *)

Abs(n) == IF n < 0 THEN -n ELSE n

Max(a, b) == IF a >= b THEN a ELSE b

RECURSIVE GCD(_, _)
GCD(a, b) == IF b = 0 THEN a ELSE GCD(b, a % b)

\* the rational n/d (d # 0) in lowest terms with a positive denominator
Rat(n, d) ==
    LET g == GCD(Abs(n), Abs(d))
        s == IF d < 0 THEN -1 ELSE 1
    IN  <<(s * n) \div g, Abs(d) \div g>>

RInt(n) == <<n, 1>>
\* sums over the least common denominator, products after cancelling
RAdd(x, y) ==
    LET g == GCD(x[2], y[2])
    IN  Rat(x[1] * (y[2] \div g) + y[1] * (x[2] \div g), (x[2] \div g) * y[2])
RSub(x, y) == RAdd(x, <<-y[1], y[2]>>)
RMul(x, y) ==
    LET g1 == GCD(Abs(x[1]), y[2])
        g2 == GCD(Abs(y[1]), x[2])
    IN  Rat((x[1] \div g1) * (y[1] \div g2), (x[2] \div g2) * (y[2] \div g1))
RNeg(x) == <<-x[1], x[2]>>
RLeq(x, y) == x[1] * y[2] <= y[1] * x[2]

\* sums and products of a sequence, by halves
RECURSIVE RSumRange(_, _, _)
RSumRange(s, lo, hi) ==
    IF lo > hi THEN RInt(0)
    ELSE IF lo = hi THEN s[lo]
    ELSE LET mid == (lo + hi) \div 2
         IN  RAdd(RSumRange(s, lo, mid), RSumRange(s, mid + 1, hi))

RSum(s) == RSumRange(s, 1, Len(s))

RECURSIVE SumRange(_, _, _)
SumRange(s, lo, hi) ==
    IF lo > hi THEN 0
    ELSE IF lo = hi THEN s[lo]
    ELSE LET mid == (lo + hi) \div 2
         IN  SumRange(s, lo, mid) + SumRange(s, mid + 1, hi)

Sum(s) == SumRange(s, 1, Len(s))

RECURSIVE ProdRange(_, _, _)
ProdRange(s, lo, hi) ==
    IF lo > hi THEN 1
    ELSE IF lo = hi THEN s[lo]
    ELSE LET mid == (lo + hi) \div 2
         IN  ProdRange(s, lo, mid) * ProdRange(s, mid + 1, hi)

Prod(s) == ProdRange(s, 1, Len(s))

RECURSIVE Pow(_, _)
Pow(b, e) == IF e = 0 THEN 1 ELSE b * Pow(b, e - 1)

\* conversion of a real n/d to an integer type: rounds toward zero
Trunc(n, d) ==
    LET q == Abs(n) \div Abs(d)
    IN  IF (n < 0) = (d < 0) THEN q ELSE -q

-----------------------------------------------------------------------------
(* Row-major tensors.                                                      *)

Tensor(shape, data) == [shape |-> shape, data |-> data]

EmptyTensor == Tensor(<<>>, <<>>)

Numel(shape) == Prod(shape)

\* weight of axis a in the row-major flat index
AxisStride(shape, a) ==
    Prod([b \in 1..(Len(shape) - a) |-> shape[a + b]])

\* the row-major weights of all axes
AxisStrides(shape) == [a \in 1..Len(shape) |-> AxisStride(shape, a)]

\* multi-index (0-based) of flat position p (0-based), given the weights
UnravelBy(p, shape, strides) ==
    [a \in 1..Len(shape) |-> (p \div strides[a]) % shape[a]]

\* flat position (0-based) of a multi-index (0-based), given the weights
RavelBy(mi, strides) == Sum([a \in 1..Len(mi) |-> mi[a] * strides[a]])

Unravel(p, shape) == UnravelBy(p, shape, AxisStrides(shape))

Ravel(mi, shape) == RavelBy(mi, AxisStrides(shape))

\* row p (0-based) of a tensor of shape <<1, n, c>>
Row(t, p) == [c \in 1..t.shape[3] |-> t.data[p * t.shape[3] + c]]

-----------------------------------------------------------------------------
(* The kernels.                                                            *)

RClip(x, lo, hi) ==
    IF RLeq(x, RInt(lo)) THEN RInt(lo)
    ELSE IF RLeq(RInt(hi), x) THEN RInt(hi) ELSE x

linear_step(x) == RClip(x, 0, 1)

\* clip(3 x^2 - 2 x^3, 0, 1)
smooth_step_1(x) ==
    LET n == x[1]
        d == x[2]
    IN  RClip(Rat(3 * n * n * d - 2 * n * n * n, d * d * d), 0, 1)

\* clip(x^3 (6 x^2 - 15 x + 10), 0, 1)
smooth_step_2(x) ==
    LET n == x[1]
        d == x[2]
    IN  RClip(Rat(n * n * n * (6 * n * n - 15 * n * d + 10 * d * d),
                  d * d * d * d * d), 0, 1)

\* ones of shape [.., 1, 1]: a single window slot
nearest_neighbor_weighting(dv, dx) == <<RInt(1)>>

\* the two appends in the other order
HyperCubeStep_LowerFirst(ws, up, lo) ==
    [j \in 1..(2 * Len(ws)) |->
        IF j % 2 = 1 THEN RMul(ws[(j + 1) \div 2], lo)
        ELSE RMul(ws[j \div 2], up)]

\* the appends of the inner loop: every weight w becomes w*upper, w*lower
HyperCubeStep(ws, up, lo) ==
    [j \in 1..(2 * Len(ws)) |->
        IF j % 2 = 1 THEN RMul(ws[(j + 1) \div 2], up)
        ELSE RMul(ws[j \div 2], lo)]

RECURSIVE HyperCubeLoop(_, _, _, _)
HyperCubeLoop(ws, lower_point, upper_point, i) ==
    IF i > Len(lower_point) THEN ws
    ELSE HyperCubeLoop(HyperCubeStep(ws, upper_point[i], lower_point[i]),
                       lower_point, upper_point, i + 1)

\* the initial pair in the other order
_hyper_cube_weighting_LowerFirst(lower_point, upper_point) ==
    HyperCubeLoop(<<lower_point[1], upper_point[1]>>,
                  lower_point, upper_point, 2)

_hyper_cube_weighting(lower_point, upper_point) ==
    HyperCubeLoop(<<upper_point[1], lower_point[1]>>,
                  lower_point, upper_point, 2)

\* index into dx (last axis of size Len(dx)) under broadcasting
Bc(a, size) == IF size = 1 THEN 1 ELSE a

\* dist_vec / dx : rows of rationals
Normalized(dv, dx) ==
    [j \in 1..Len(dv) |->
        [a \in 1..Len(dv[j]) |-> Rat(dv[j][a], dx[Bc(a, Len(dx))])]]

\* upper_point taken from the first window slot instead of the last
linear_weighting_FirstSlot(dv, dx) ==
    LET nd == Normalized(dv, dx)
        lower_point == nd[1]
        upper_point == [a \in 1..Len(nd[1]) |-> RNeg(nd[1][a])]
    IN  _hyper_cube_weighting(lower_point, upper_point)

linear_weighting(dv, dx) ==
    LET nd == Normalized(dv, dx)
        lower_point == nd[1]
        last == nd[Len(nd)]
        upper_point == [a \in 1..Len(last) |-> RNeg(last[a])]
    IN  _hyper_cube_weighting(lower_point, upper_point)

smooth_step_1_weighting(dv, dx) ==
    LET nd == Normalized(dv, dx)
        first == nd[1]
        last == nd[Len(nd)]
        lower_point == [a \in 1..Len(first) |-> smooth_step_1(first[a])]
        upper_point == [a \in 1..Len(last) |-> smooth_step_1(RNeg(last[a]))]
    IN  _hyper_cube_weighting(lower_point, upper_point)

smooth_step_2_weighting(dv, dx) ==
    LET nd == Normalized(dv, dx)
        first == nd[1]
        last == nd[Len(nd)]
        lower_point == [a \in 1..Len(first) |-> smooth_step_2(first[a])]
        upper_point == [a \in 1..Len(last) |-> smooth_step_2(RNeg(last[a]))]
    IN  _hyper_cube_weighting(lower_point, upper_point)

\* 100 * exp(-2 u^2) for u = 0, 0.1, .., 3.0, rounded up (exp is positive)
ExpTable ==
    <<100, 99, 93, 84, 73, 61, 49, 38, 28, 20, 14, 9, 6, 4, 2, 2, 1, 1, 1, 1,
      1, 1, 1, 1, 1, 1, 1, 1, 1, 1, 1>>

\* exp(-0.5 * square(dist / sigma)) with sigma = dx / sharpen, sharpen = 2.0,
\* for a distance that is a whole number of tenths of dx
GaussianExp(dist, dx) ==
    LET m == (10 * Abs(dist)) \div dx
    IN  IF m + 1 > Len(ExpTable) THEN 1 ELSE ExpTable[m + 1]

\* The constant factor 1 / ((2 pi)^(dim/2) prod(sigma)) multiplies every
\* slot and the norm alike; gaussian / norm is computed without it.
gaussian_weighting(dv, dx) ==
    LET gaussian ==
            [j \in 1..Len(dv) |->
                Prod([a \in 1..Len(dv[j]) |->
                        GaussianExp(dv[j][a], dx[Bc(a, Len(dx))])])]
        norm == Sum(gaussian)
    IN  [j \in 1..Len(dv) |-> Rat(gaussian[j], norm)]

-----------------------------------------------------------------------------
(* Gathering.                                                              *)

\* params[indices] of _gather_nd: Python indexing, a negative index counts
\* from the end, an index outside [-n, n) raises IndexError
GatherNdOK(points, ix) ==
    \A j \in 1..Len(ix) : -points.shape[2] <= ix[j] /\ ix[j] < points.shape[2]

index_values_low_mem(points, ix) ==
    [j \in 1..Len(ix) |-> Row(points, ix[j] % points.shape[2])]

\* torch.gather: every index must lie in [0, n)
TorchGatherOK(points, ix) ==
    \A j \in 1..Len(ix) : 0 <= ix[j] /\ ix[j] < points.shape[2]

\* every index taken one node too low
index_values_high_mem_OffByOne(points, ix) ==
    [j \in 1..Len(ix) |-> Row(points, Max(ix[j] - 1, 0))]

index_values_high_mem(points, ix) ==
    [j \in 1..Len(ix) |-> Row(points, ix[j])]

IndexValuesOK(mem_speed_trade, points, ix) ==
    IF mem_speed_trade THEN GatherNdOK(points, ix) ELSE TorchGatherOK(points, ix)

IndexValues(mem_speed_trade, points, ix) ==
    IF mem_speed_trade THEN index_values_low_mem(points, ix)
    ELSE index_values_high_mem(points, ix)

-----------------------------------------------------------------------------
(* The steps of interpolation and of _grid_knn_idx.                        *)

Kernels ==
    {"nearest_neighbor", "linear", "smooth_step_1", "smooth_step_2", "gaussian"}

\* the stride chain of interpolation; 0 stands for the final raise
StrideOf(interpolation_type) ==
    CASE interpolation_type = "nearest_neighbor" -> 1
      [] interpolation_type = "linear" -> 2
      [] interpolation_type = "smooth_step_1" -> 2
      [] interpolation_type = "smooth_step_2" -> 2
      [] interpolation_type = "gaussian" -> 5
      [] OTHER -> 0

\* dx = [(x[1] - x[0]) / (x[2] - 1) for x in grid]
DxOf(grid) ==
    [a \in 1..Len(grid) |-> (grid[a][2] - grid[a][1]) \div (grid[a][3] - 1)]

\* sizes of the padded lattice: x[2] + 2 * k per axis
PaddedSizes(grid, k) == [a \in 1..Len(grid) |-> grid[a][3] + 2 * k]

\* torch.linspace(x[0] - k*dx_i, x[1] + k*dx_i, x[2] + 2*k), element i (0-based)
Linspace(x, dx_i, k, i) ==
    LET first == x[1] - k * dx_i
        last == x[2] + k * dx_i
        steps == x[3] + 2 * k
    IN  IF steps = 1 THEN first
        ELSE first + (i * (last - first)) \div (steps - 1)

\* torch.stack(torch.meshgrid(linspace), dim=-1): shape sizes + [dims]
MeshgridOf(grid, k) ==
    LET dims == Len(grid)
        sizes == PaddedSizes(grid, k)
        shape == sizes \o <<dims>>
        strides == AxisStrides(shape)
        dx == DxOf(grid)
    IN  Tensor(shape,
               [p \in 1..Numel(shape) |->
                   LET a == ((p - 1) % dims) + 1
                   IN  Linspace(grid[a], dx[a], k,
                                ((p - 1) \div strides[a]) % shape[a])])

\* F.pad accepts at most two padding entries per dimension of its input
PadOK(t, nd) == nd <= Len(t.shape)

\* all 2k zeros appended after the data, none before
F_pad_After(t, nd, k) ==
    LET r == Len(t.shape)
        padded(a) == a > r - nd
        shape == [a \in 1..r |-> IF padded(a) THEN t.shape[a] + 2 * k
                                 ELSE t.shape[a]]
        strides == AxisStrides(shape)
        from == AxisStrides(t.shape)
    IN  Tensor(shape,
               [p \in 1..Numel(shape) |->
                   LET mi == UnravelBy(p - 1, shape, strides)
                   IN  IF \A a \in 1..r : mi[a] < t.shape[a]
                       THEN t.data[RavelBy(mi, from) + 1]
                       ELSE 0])

\* F.pad(t, nd * (k, k)): the last nd axes get k zeros before and after
F_pad(t, nd, k) ==
    LET r == Len(t.shape)
        padded(a) == a > r - nd
        shape == [a \in 1..r |-> IF padded(a) THEN t.shape[a] + 2 * k
                                 ELSE t.shape[a]]
        strides == AxisStrides(shape)
        from == AxisStrides(t.shape)
    IN  Tensor(shape,
               [p \in 1..Numel(shape) |->
                   LET mi == UnravelBy(p - 1, shape, strides)
                       src == [a \in 1..r |-> IF padded(a) THEN mi[a] - k
                                              ELSE mi[a]]
                   IN  IF \A a \in 1..r : 0 <= src[a] /\ src[a] < t.shape[a]
                       THEN t.data[RavelBy(src, from) + 1]
                       ELSE 0])

\* nr_grid_points = prod(x[2] + 2 * k)
NrGridPoints(grid, k) == Prod(PaddedSizes(grid, k))

\* torch.reshape(t, [1, nr_channels, nr_grid_points]) needs the same numel
ReshapeOK(t, nr_channels, nr_grid_points) ==
    Numel(t.shape) = nr_channels * nr_grid_points

\* reshape to [1, nr_channels, n], then swapaxes(1, 2): [1, n, nr_channels]
ReshapeSwap(t, nr_channels, n) ==
    Tensor(<<1, n, nr_channels>>,
           [q \in 1..(n * nr_channels) |->
               LET node == (q - 1) \div nr_channels
                   c == (q - 1) % nr_channels
               IN  t.data[c * n + node + 1]])

\* meshgrid.view(1, nr_grid_points, dims)
ViewMesh(t, n, dims) == Tensor(<<1, n, dims>>, t.data)

\* two last-axis sizes broadcast when they agree or one of them is 1
BroadcastOK(m, n) == m = n \/ m = 1 \/ n = 1

\* the half-cell shift of odd strides left out
CenterIdxOf_NoFrac(query_points, grid, stride_) ==
    LET k == stride_ \div 2
        dx == DxOf(grid)
        e == Max(Len(query_points), Len(grid))
    IN  [a \in 1..e |->
            LET q == query_points[Bc(a, Len(query_points))]
                g == Bc(a, Len(grid))
                start == grid[g][1] - k * dx[g]
            IN  Trunc(q - start, dx[g])]

\* center_idx = ((query_points - start) / dx + (stride / 2.0 % 1.0)).to(int64)
\* with start = min - k * dx; the conversion rounds toward zero
CenterIdxOf(query_points, grid, stride_) ==
    LET k == stride_ \div 2
        dx == DxOf(grid)
        e == Max(Len(query_points), Len(grid))
    IN  [a \in 1..e |->
            LET q == query_points[Bc(a, Len(query_points))]
                g == Bc(a, Len(grid))
                start == grid[g][1] - k * dx[g]
            IN  Trunc(2 * (q - start) + (stride_ % 2) * dx[g], 2 * dx[g])]

\* the window of an even stride shifted one node down
IdxAdd_ShiftedDown(stride_) == [i \in 1..stride_ |-> i - 1 - (stride_ \div 2)]

\* torch.arange(-((stride - 1) // 2), stride // 2 + 1)
IdxAdd(stride_) == [i \in 1..stride_ |-> i - 1 - ((stride_ - 1) \div 2)]

\* the row length of the unpadded grid
DimSize_Unpadded(grid, a, k) == grid[a][3]

\* dim_size = grid[a][2], and dim_size += 2 * k under padding (a is 1-based)
DimSize(grid, a, k) == grid[a][3] + 2 * k

\* the 1-, 2- and 3-axis branches of _grid_knn_idx (padding = True); the
\* else branch raises and leaves no idx, written <<>>
WindowIdxOf(center, grid, stride_) ==
    LET k == stride_ \div 2
        S == stride_
        idx_add == IdxAdd(stride_)
    IN  CASE Len(grid) = 1 ->
               [j \in 1..S |-> center[1] + idx_add[j]]
          [] Len(grid) = 2 ->
               LET dim_size_1 == DimSize(grid, 2, k)
               IN  [j \in 1..(S * S) |->
                       LET i0 == (j - 1) \div S
                           i1 == (j - 1) % S
                       IN  dim_size_1 * (center[1] + idx_add[i0 + 1])
                           + (center[2] + idx_add[i1 + 1])]
          [] Len(grid) = 3 ->
               LET dim_size_1 == DimSize(grid, 2, k)
                   dim_size_2 == DimSize(grid, 3, k)
               IN  [j \in 1..(S * S * S) |->
                       LET i0 == (j - 1) \div (S * S)
                           i1 == ((j - 1) \div S) % S
                           i2 == (j - 1) % S
                       IN  dim_size_2 * dim_size_1 * (center[1] + idx_add[i0 + 1])
                           + dim_size_2 * (center[2] + idx_add[i1 + 1])
                           + (center[3] + idx_add[i2 + 1])]
          [] OTHER -> <<>>

\* no raise for four and more axes
DimsSupported_AnyAxes(grid) == Len(grid) >= 1

\* the else branch of _grid_knn_idx raises
DimsSupported(grid) == Len(grid) \in {1, 2, 3}

\* dist_vec = query_points.unsqueeze(2) - mesh_grid_idx
DistVecOf(query_points, mgi) ==
    [j \in 1..Len(mgi) |->
        [a \in 1..Max(Len(query_points), Len(mgi[j])) |->
            query_points[Bc(a, Len(query_points))] - mgi[j][Bc(a, Len(mgi[j]))]]]

\* the weighting chain of interpolation
WeightsOf(interpolation_type, dv, dx) ==
    CASE interpolation_type = "nearest_neighbor" -> nearest_neighbor_weighting(dv, dx)
      [] interpolation_type = "linear" -> linear_weighting(dv, dx)
      [] interpolation_type = "smooth_step_1" -> smooth_step_1_weighting(dv, dx)
      [] interpolation_type = "smooth_step_2" -> smooth_step_2_weighting(dv, dx)
      [] interpolation_type = "gaussian" -> gaussian_weighting(dv, dx)

\* product = weights * context_grid_idx; product.sum(dim=2); [0]
ReduceOf(ws, cgi) ==
    LET rows == Max(Len(ws), Len(cgi))
        nc == Len(cgi[1])
    IN  [c \in 1..nc |->
            RSum([j \in 1..rows |->
                    RMul(ws[Bc(j, Len(ws))], RInt(cgi[Bc(j, Len(cgi))][c]))])]

\* the whole call as a function of its arguments: the values returned, or
\* the empty sequence when the call raises
InterpolationOf(a) ==
    LET S == StrideOf(a.interpolation_type)
        k == S \div 2
        dims == Len(a.grid)
        n == NrGridPoints(a.grid, k)
        nr_channels == a.context_grid.shape[1]
        mesh == ViewMesh(MeshgridOf(a.grid, k), n, dims)
        padded == F_pad(a.context_grid, dims, k)
        ctx == ReshapeSwap(padded, nr_channels, n)
        ix == WindowIdxOf(CenterIdxOf(a.query_points, a.grid, S), a.grid, S)
        mgi == IndexValues(a.mem_speed_trade, mesh, ix)
        dv == DistVecOf(a.query_points, mgi)
        ws == WeightsOf(a.interpolation_type, dv, DxOf(a.grid))
        cgi == IndexValues(a.mem_speed_trade, ctx, ix)
    IN  IF /\ S # 0
           /\ dims # 0
           /\ PadOK(a.context_grid, dims)
           /\ ReshapeOK(padded, nr_channels, n)
           /\ BroadcastOK(Len(a.query_points), dims)
           /\ DimsSupported(a.grid)
           /\ IndexValuesOK(a.mem_speed_trade, mesh, ix)
           /\ BroadcastOK(Len(ws), Len(cgi))
        THEN ReduceOf(ws, cgi)
        ELSE <<>>

-----------------------------------------------------------------------------
(* The explored arguments.                                                 *)

\* an axis (min, max, resolution) with spacing 2
Axis(r) == <<2 - r, r, r>>

\* the axis {min 0, max 1, resolution 3} in units of 0.05
ScenarioAxis == <<0, 20, 3>>

AxisDx(x) == (x[2] - x[1]) \div (x[3] - 1)

\* every whole coordinate up to m spacings outside the axis
FineCoords(x, m) == (x[1] - m * AxisDx(x))..(x[2] + m * AxisDx(x))

\* far below, half a cell below, first node, mid-cell, last node, one
\* spacing above
CoarseCoords(x) ==
    {x[1] - QMargin * AxisDx(x), x[1] - 1, x[1], x[1] + 1, x[2],
     x[2] + AxisDx(x)}

\* the same without the first node
CoarserCoords(x) == CoarseCoords(x) \ {x[1]}

\* the value stored for channel c (1-based) at flat node i (0-based)
Field(c, i) ==
    CASE c = 1 -> 7
      [] c = 2 -> IF i = 1 THEN 10 ELSE 0
      [] OTHER -> (i * i * i + 2 * i + 3 + c) % 11

ContextOf(shape) ==
    LET nodes == Numel(Tail(shape))
    IN  Tensor(shape,
               [p \in 1..Numel(shape) |->
                   Field((p - 1) \div nodes + 1, (p - 1) % nodes)])

Resolutions(grid) == [a \in 1..Len(grid) |-> grid[a][3]]

Args(q, shape, grid, type, mst) ==
    [query_points |-> q, context_grid |-> ContextOf(shape), grid |-> grid,
     interpolation_type |-> type, mem_speed_trade |-> mst]

Grids1D == {<<Axis(r)>> : r \in 2..MaxRes}

Grids2D ==
    {<<Axis(2), Axis(r)>> : r \in 3..MaxRes} \cup {<<Axis(r), Axis(2)>> : r \in 3..MaxRes}

\* one three-axis grid, with rows of unequal length
Grids3D == {<<Axis(2), Axis(3), Axis(2)>>}

Grid4D == <<Axis(2), Axis(2), Axis(2), Axis(2)>>

Queries(grid) ==
    CASE Len(grid) = 1 ->
           IF grid[1] = ScenarioAxis
           THEN {<<c>> : c \in FineCoords(grid[1], 1)}
           ELSE {<<c>> : c \in FineCoords(grid[1], QMargin)}
      [] Len(grid) = 2 ->
           {<<c1, c2>> : c1 \in CoarseCoords(grid[1]),
                         c2 \in CoarseCoords(grid[2])}
      [] Len(grid) = 3 ->
           {<<c1, c2, c3>> : c1 \in CoarserCoords(grid[1]),
                             c2 \in CoarserCoords(grid[2]),
                             c3 \in CoarserCoords(grid[3])}

WellShapedGrids == Grids1D \cup {<<ScenarioAxis>>} \cup Grids2D \cup Grids3D

\* query vectors of the grid's length, context grid [channels, res_1, ..]
WellShapedInputs ==
    UNION {{Args(q, <<NrChannels>> \o Resolutions(g), g, t, m) :
               q \in Queries(g), t \in Kernels, m \in BOOLEAN} :
           g \in WellShapedGrids}

\* query vectors whose length differs from the grid's
QueryLengthInputs ==
    UNION {{Args([a \in 1..d |-> c], <<NrChannels>> \o Resolutions(g), g, t, m) :
               d \in (1..3) \ {Len(g)}, c \in {1, 2}, t \in Kernels,
               m \in BOOLEAN} :
           g \in {<<Axis(2)>>, <<Axis(2), Axis(3)>>,
                  <<Axis(2), Axis(3), Axis(2)>>}}

\* context grids whose shape is not [channels, res_1, .., res_dims]
ContextShapeCases ==
    {<<(<<Axis(4)>>), <<NrChannels, 2, 1>>>>,
     <<(<<Axis(2)>>), <<NrChannels, 3>>>>,
     <<(<<Axis(2), Axis(3)>>), <<NrChannels, 3, 2>>>>,
     <<(<<Axis(2), Axis(3)>>), <<NrChannels, 6>>>>,
     <<(<<Axis(2), Axis(3)>>), <<NrChannels, 2, 2>>>>,
     <<(<<Axis(2), Axis(3), Axis(2)>>), <<NrChannels, 12>>>>}

ContextShapeInputs ==
    {Args([a \in 1..Len(cs[1]) |-> 1], cs[2], cs[1], t, m) :
        cs \in ContextShapeCases, t \in Kernels, m \in BOOLEAN}

\* grids of no axis and of four axes
DimsInputs ==
    {Args(<<1>>, <<NrChannels>>, <<>>, t, m) : t \in Kernels, m \in BOOLEAN}
    \cup
    {Args(q, <<NrChannels, 2, 2, 2, 2>>, Grid4D, t, m) :
        q \in {<<1, 1, 1, 1>>, <<0, 2, 1, -1>>, <<1, 1, 1>>},
        t \in Kernels, m \in BOOLEAN}

\* an interpolation_type outside the chain
KernelInputs ==
    {Args(<<1>>, <<NrChannels, 2>>, <<Axis(2)>>, "cubic", m) : m \in BOOLEAN}

Inputs ==
    WellShapedInputs \cup QueryLengthInputs \cup ContextShapeInputs
    \cup DimsInputs \cup KernelInputs

NoArgs ==
    [query_points |-> <<>>, context_grid |-> EmptyTensor, grid |-> <<>>,
     interpolation_type |-> "", mem_speed_trade |-> TRUE]

-----------------------------------------------------------------------------
(* The call, statement by statement.                                       *)

Init ==
    /\ pc = "idle"
    /\ err = ""
    /\ args = NoArgs
    /\ stride = 0
    /\ meshgrid = EmptyTensor
    /\ context_grid = EmptyTensor
    /\ center_idx = <<>>
    /\ idx = <<>>
    /\ mesh_grid_idx = <<>>
    /\ dist_vec = <<>>
    /\ weights = <<>>
    /\ context_grid_idx = <<>>
    /\ interpolated_points = <<>>

Raise(kind) ==
    /\ pc' = "error"
    /\ err' = kind

\* interpolation(query_points, context_grid, grid, interpolation_type,
\* mem_speed_trade) is entered
Call ==
    /\ pc = "idle"
    /\ \E a \in Inputs :
          /\ args' = a
          /\ context_grid' = a.context_grid
    /\ pc' = "stride"
    /\ UNCHANGED <<err, stride, meshgrid, center_idx, idx, mesh_grid_idx,
                   dist_vec, weights, context_grid_idx, interpolated_points>>

\* set stride, or raise RuntimeError
SetStride ==
    /\ pc = "stride"
    /\ IF StrideOf(args.interpolation_type) = 0
       THEN /\ Raise("RuntimeError: interpolation_type")
            /\ UNCHANGED stride
       ELSE /\ stride' = StrideOf(args.interpolation_type)
            /\ pc' = "meshgrid"
            /\ UNCHANGED err
    /\ UNCHANGED <<args, meshgrid, context_grid, center_idx, idx,
                   mesh_grid_idx, dist_vec, weights, context_grid_idx,
                   interpolated_points>>

\* dims, nr_channels, dx, k, linspace, meshgrid; torch.meshgrid of an empty
\* list raises
BuildMeshgrid ==
    /\ pc = "meshgrid"
    /\ IF Len(args.grid) = 0
       THEN /\ Raise("RuntimeError: meshgrid")
            /\ UNCHANGED meshgrid
       ELSE /\ meshgrid' = MeshgridOf(args.grid, stride \div 2)
            /\ pc' = "pad"
            /\ UNCHANGED err
    /\ UNCHANGED <<args, stride, context_grid, center_idx, idx,
                   mesh_grid_idx, dist_vec, weights, context_grid_idx,
                   interpolated_points>>

\* context_grid = F.pad(context_grid, dims * (k, k))
PadContextGrid ==
    /\ pc = "pad"
    /\ IF ~PadOK(context_grid, Len(args.grid))
       THEN /\ Raise("RuntimeError: pad")
            /\ UNCHANGED context_grid
       ELSE /\ context_grid' = F_pad(context_grid, Len(args.grid), stride \div 2)
            /\ pc' = "reshape"
            /\ UNCHANGED err
    /\ UNCHANGED <<args, stride, meshgrid, center_idx, idx, mesh_grid_idx,
                   dist_vec, weights, context_grid_idx, interpolated_points>>

\* nr_grid_points; meshgrid.view; torch.reshape and swapaxes of context_grid
ReshapeGrids ==
    /\ pc = "reshape"
    /\ LET n == NrGridPoints(args.grid, stride \div 2)
           nr_channels == args.context_grid.shape[1]
       IN  /\ meshgrid' = ViewMesh(meshgrid, n, Len(args.grid))
           /\ IF ~ReshapeOK(context_grid, nr_channels, n)
              THEN /\ Raise("RuntimeError: reshape")
                   /\ UNCHANGED context_grid
              ELSE /\ context_grid' = ReshapeSwap(context_grid, nr_channels, n)
                   /\ pc' = "center"
                   /\ UNCHANGED err
    /\ UNCHANGED <<args, stride, center_idx, idx, mesh_grid_idx, dist_vec,
                   weights, context_grid_idx, interpolated_points>>

\* _grid_knn_idx up to center_idx and idx_add
CenterIdx ==
    /\ pc = "center"
    /\ IF ~BroadcastOK(Len(args.query_points), Len(args.grid))
       THEN /\ Raise("RuntimeError: broadcast")
            /\ UNCHANGED center_idx
       ELSE /\ center_idx' = CenterIdxOf(args.query_points, args.grid, stride)
            /\ pc' = "window"
            /\ UNCHANGED err
    /\ UNCHANGED <<args, stride, meshgrid, context_grid, idx, mesh_grid_idx,
                   dist_vec, weights, context_grid_idx, interpolated_points>>

\* _grid_knn_idx: the branch on len(grid), or raise RuntimeError
WindowIdx ==
    /\ pc = "window"
    /\ IF ~DimsSupported(args.grid)
       THEN /\ Raise("RuntimeError: len(grid)")
            /\ UNCHANGED idx
       ELSE /\ idx' = WindowIdxOf(center_idx, args.grid, stride)
            /\ pc' = "gather_mesh"
            /\ UNCHANGED err
    /\ UNCHANGED <<args, stride, meshgrid, context_grid, center_idx,
                   mesh_grid_idx, dist_vec, weights, context_grid_idx,
                   interpolated_points>>

\* mesh_grid_idx = index_values_*(meshgrid, idx); dist_vec
GatherMesh ==
    /\ pc = "gather_mesh"
    /\ IF ~IndexValuesOK(args.mem_speed_trade, meshgrid, idx)
       THEN /\ Raise("IndexError: gather")
            /\ UNCHANGED <<mesh_grid_idx, dist_vec>>
       ELSE LET mgi == IndexValues(args.mem_speed_trade, meshgrid, idx)
            IN  /\ mesh_grid_idx' = mgi
                /\ IF ~BroadcastOK(Len(args.query_points), Len(args.grid))
                   THEN /\ Raise("RuntimeError: broadcast")
                        /\ UNCHANGED dist_vec
                   ELSE /\ dist_vec' = DistVecOf(args.query_points, mgi)
                        /\ pc' = "weights"
                        /\ UNCHANGED err
    /\ UNCHANGED <<args, stride, meshgrid, context_grid, center_idx, idx,
                   weights, context_grid_idx, interpolated_points>>

\* compute bump function
Weighting ==
    /\ pc = "weights"
    /\ weights' = WeightsOf(args.interpolation_type, dist_vec, DxOf(args.grid))
    /\ pc' = "gather_ctx"
    /\ UNCHANGED <<err, args, stride, meshgrid, context_grid, center_idx, idx,
                   mesh_grid_idx, dist_vec, context_grid_idx,
                   interpolated_points>>

\* context_grid_idx = index_values_*(context_grid, idx)
GatherContext ==
    /\ pc = "gather_ctx"
    /\ IF ~IndexValuesOK(args.mem_speed_trade, context_grid, idx)
       THEN /\ Raise("IndexError: gather")
            /\ UNCHANGED context_grid_idx
       ELSE /\ context_grid_idx' =
                   IndexValues(args.mem_speed_trade, context_grid, idx)
            /\ pc' = "reduce"
            /\ UNCHANGED err
    /\ UNCHANGED <<args, stride, meshgrid, context_grid, center_idx, idx,
                   mesh_grid_idx, dist_vec, weights, interpolated_points>>

\* product = weights * context_grid_idx; sum over the window; return
Reduce ==
    /\ pc = "reduce"
    /\ IF ~BroadcastOK(Len(weights), Len(context_grid_idx))
       THEN /\ Raise("RuntimeError: broadcast")
            /\ UNCHANGED interpolated_points
       ELSE /\ interpolated_points' = ReduceOf(weights, context_grid_idx)
            /\ pc' = "done"
            /\ UNCHANGED err
    /\ UNCHANGED <<args, stride, meshgrid, context_grid, center_idx, idx,
                   mesh_grid_idx, dist_vec, weights, context_grid_idx>>

Next ==
    \/ Call
    \/ SetStride
    \/ BuildMeshgrid
    \/ PadContextGrid
    \/ ReshapeGrids
    \/ CenterIdx
    \/ WindowIdx
    \/ GatherMesh
    \/ Weighting
    \/ GatherContext
    \/ Reduce

Spec == Init /\ [][Next]_vars

-----------------------------------------------------------------------------
(* Vocabulary of the properties.                                           *)

Q == args.query_points
G == args.grid
T == args.interpolation_type

\* the call has the argument shapes the function is written for
WellShaped ==
    /\ pc # "idle"
    /\ T \in Kernels
    /\ Len(G) \in {1, 2, 3}
    /\ Len(Q) = Len(G)
    /\ args.context_grid.shape = <<args.context_grid.shape[1]>> \o Resolutions(G)

SOf == StrideOf(T)
KOf == SOf \div 2
LoOff == -((SOf - 1) \div 2)
HiOff == SOf \div 2
Axes == 1..Len(G)
WindowSize == Pow(SOf, Len(G))

\* query coordinate a lies in [min - m/2 dx, max + m/2 dx]
WithinHalves(a, m) ==
    /\ 2 * (Q[a] - G[a][1]) >= -(m * DxOf(G)[a])
    /\ 2 * (Q[a] - G[a][2]) <= m * DxOf(G)[a]

InNominal == \A a \in Axes : WithinHalves(a, 0)
InPadded == \A a \in Axes : WithinHalves(a, 2 * KOf)

\* per-axis position on the padded lattice of the node of window slot j
SlotPos(j) ==
    LET digits == Unravel(j - 1, [a \in Axes |-> SOf])
    IN  [a \in Axes |-> center_idx[a] + LoOff + digits[a]]

PosOnLattice(pos) ==
    \A a \in Axes : 0 <= pos[a] /\ pos[a] < G[a][3] + 2 * KOf

\* the node is one of the grid's own nodes, not a padded border node
PosInterior(pos) ==
    \A a \in Axes : KOf <= pos[a] /\ pos[a] < G[a][3] + KOf

\* the window lies on the padded lattice on every axis
WindowInside ==
    \A a \in Axes :
        /\ 0 <= center_idx[a] + LoOff
        /\ center_idx[a] + HiOff < G[a][3] + 2 * KOf

\* value of channel c (1-based) at the grid node with per-axis indices node
Stored(c, node) ==
    args.context_grid.data[Ravel(<<c - 1>> \o node, args.context_grid.shape) + 1]

Channels == 1..args.context_grid.shape[1]

\* what the call returns
Returned == pc = "done"

\* _grid_knn_idx has just returned idx
IdxComputed == pc = "gather_mesh"

\* the weights have just been computed
WeightsComputed == pc = "gather_ctx"

\* the arguments with the other memory strategy
OtherStrategy == [args EXCEPT !.mem_speed_trade = ~args.mem_speed_trade]

\* every window flat index addresses a node of the padded lattice
IndicesInRange ==
    \A j \in 1..Len(idx) : 0 <= idx[j] /\ idx[j] < NrGridPoints(G, KOf)

\* weight of window slot j under broadcasting of the slot axis
W(j) == weights[Bc(j, Len(weights))]

RECURSIVE RProdRange(_, _, _)
RProdRange(s, lo, hi) ==
    IF lo > hi THEN RInt(1)
    ELSE RMul(s[lo], RProdRange(s, lo + 1, hi))

RProd(s) == RProdRange(s, 1, Len(s))

\* the query sits on a node of the grid on every axis
AtNode ==
    /\ InNominal
    /\ \A a \in Axes : (Q[a] - G[a][1]) % DxOf(G)[a] = 0

NodeOfQuery == [a \in Axes |-> (Q[a] - G[a][1]) \div DxOf(G)[a]]

\* row-major index on the padded lattice of a grid node
PaddedFlat(node) ==
    Ravel([a \in Axes |-> node[a] + KOf], PaddedSizes(G, KOf))

-----------------------------------------------------------------------------
(* C1: the two memory strategies.                                          *)

\* C1 as stated: for identical query points, context grid, grid and kernel
\* on 1-, 2- and 3-axis grids, the call with the other memory strategy
\* returns the same values.
C1_Original ==
    (WellShaped /\ Returned) => InterpolationOf(OtherStrategy) = interpolated_points

\* C1 amended: the other strategy returns the same values whenever every
\* window flat index lies in [0, n), which is the case whenever high_mem
\* returns; when low_mem returns from a window with a negative index
\* (counted from the end of the lattice), high_mem raises.
C1_Amended ==
    /\ (WellShaped /\ Returned /\ ~args.mem_speed_trade) => IndicesInRange
    /\ (WellShaped /\ Returned /\ IndicesInRange)
          => InterpolationOf(OtherStrategy) = interpolated_points
    /\ (WellShaped /\ Returned /\ ~IndicesInRange)
          => /\ args.mem_speed_trade
             /\ \E j \in 1..Len(idx) : idx[j] < 0
             /\ InterpolationOf(OtherStrategy) = <<>>

C1_Witness ==
    /\ WellShaped /\ Returned /\ IndicesInRange
    /\ ~args.mem_speed_trade /\ Len(G) = 3 /\ T = "linear"
    /\ interpolated_points[3] # RInt(0)

-----------------------------------------------------------------------------
(* C2: a constant channel.                                                 *)

\* channel 1 of every explored context grid holds this value at every node
ConstantValue == Field(1, 0)

\* total weight of the window slots that address nodes of the grid itself
InteriorWeight ==
    RSum([j \in 1..WindowSize |->
            IF PosInterior(SlotPos(j)) THEN W(j) ELSE RInt(0)])

\* C2 as stated: for every kernel and every query within the padded domain
\* the interpolated value of a constant channel is exactly its value v.
C2_Original ==
    (WellShaped /\ Returned /\ InPadded)
        => interpolated_points[1] = RInt(ConstantValue)

\* C2 amended: when the window lies on the padded lattice the value is v
\* times the total weight of the window's unpadded nodes; it is exactly v
\* for nearest_neighbor, linear, smooth_step_1 and smooth_step_2 at every
\* query of the nominal domain [min, max].
C2_Amended ==
    /\ (WellShaped /\ Returned /\ WindowInside)
          => interpolated_points[1] = RMul(RInt(ConstantValue), InteriorWeight)
    /\ (WellShaped /\ Returned /\ InNominal /\ SOf <= 2)
          => interpolated_points[1] = RInt(ConstantValue)
    /\ (WellShaped /\ InNominal /\ SOf <= 2) => pc # "error"

C2_Witness ==
    /\ WellShaped /\ Returned /\ InNominal /\ ~AtNode
    /\ T = "smooth_step_2" /\ Len(G) = 3

-----------------------------------------------------------------------------
(* C3: window indices.                                                     *)

WindowIndicesRight ==
    /\ Len(idx) = WindowSize
    /\ \A j \in 1..WindowSize :
          /\ 0 <= idx[j]
          /\ idx[j] < NrGridPoints(G, KOf)
          /\ PosOnLattice(SlotPos(j))
          /\ idx[j] = Ravel(SlotPos(j), PaddedSizes(G, KOf))

\* C3 as stated: for every kernel and every query with each coordinate in
\* [min - k dx, max + k dx], every window flat index lies in [0, n) and is
\* the row-major index of the padded node at center + offset, on the lattice.
C3_Original ==
    (WellShaped /\ IdxComputed /\ InPadded) => WindowIndicesRight

\* the half-open per-axis range [min - m dx, max + m dx), m = 1 for stride 2
\* and m = 1/2 for strides 1 and 5
InIndexRange ==
    \A a \in Axes :
        LET m2 == IF SOf = 2 THEN 2 ELSE 1
        IN  /\ 2 * (Q[a] - G[a][1]) >= -(m2 * DxOf(G)[a])
            /\ 2 * (Q[a] - G[a][2]) < m2 * DxOf(G)[a]

\* C3 amended: the same conclusion for every query with each coordinate in
\* [min - m dx, max + m dx), m = 1 for the stride-2 kernels and 1/2 for
\* nearest_neighbor and gaussian; this covers the nominal domain [min, max].
C3_Amended ==
    (WellShaped /\ IdxComputed /\ (InIndexRange \/ InNominal)) => WindowIndicesRight

C3_Witness ==
    /\ WellShaped /\ IdxComputed /\ InIndexRange
    /\ Len(G) = 3 /\ T = "gaussian" /\ ~InNominal

-----------------------------------------------------------------------------
(* C4: the linear kernel.                                                  *)

\* the cell of the grid that holds the query, and the position in it
CellOf(a) ==
    LET u == (Q[a] - G[a][1]) \div DxOf(G)[a]
    IN  IF u > G[a][3] - 2 THEN G[a][3] - 2 ELSE u

CellFrac(a) == Rat(Q[a] - G[a][1] - CellOf(a) * DxOf(G)[a], DxOf(G)[a])

\* multilinear interpolant of channel c over the 2^dims corners of the cell
Multilinear(c) ==
    RSum([b \in 1..Pow(2, Len(G)) |->
            LET bits == Unravel(b - 1, [a \in Axes |-> 2])
                wt == RProd([a \in Axes |->
                              IF bits[a] = 1 THEN CellFrac(a)
                              ELSE RSub(RInt(1), CellFrac(a))])
            IN  RMul(wt, RInt(Stored(c, [a \in Axes |-> CellOf(a) + bits[a]])))])

\* hat-function weight of the padded node with flat index f: the product
\* over the axes of max(0, 1 - |query - node| / dx)
CornerWeight(f) ==
    LET pos == Unravel(f, PaddedSizes(G, KOf))
    IN  RProd([a \in Axes |->
                 LET coord == G[a][1] + (pos[a] - KOf) * DxOf(G)[a]
                     h == RSub(RInt(1), Rat(Abs(Q[a] - coord), DxOf(G)[a]))
                 IN  IF RLeq(h, RInt(0)) THEN RInt(0) ELSE h])

\* C4: for the linear kernel and a query inside the nominal domain the
\* returned value of every channel is the multilinear interpolant over the
\* corners of the cell, the weight of slot j being the corner weight of the
\* node idx[j]; the grid {0, 1, 3} with [0, 10, 0] gives 5 at 0.25 and 10 at
\* 0.5 (coordinates 5 and 10 in units of 0.05).
C4_Linear ==
    (WellShaped /\ T = "linear" /\ InNominal) =>
        /\ pc # "error"
        /\ WeightsComputed =>
              \A j \in 1..WindowSize : weights[j] = CornerWeight(idx[j])
        /\ Returned =>
              /\ \A c \in Channels : interpolated_points[c] = Multilinear(c)
              /\ (G = <<ScenarioAxis>> /\ Q = <<5>>)
                    => interpolated_points[2] = RInt(5)
              /\ (G = <<ScenarioAxis>> /\ Q = <<10>>)
                    => interpolated_points[2] = RInt(10)

C4_Witness ==
    /\ WellShaped /\ T = "linear" /\ InNominal /\ Returned
    /\ G = <<ScenarioAxis>> /\ Q = <<5>>
    /\ interpolated_points[2] = RInt(5)

-----------------------------------------------------------------------------
(* C5: queries on lattice nodes.                                           *)

\* C5: for linear, smooth_step_1 and smooth_step_2 a query exactly on a
\* node of the grid returns the stored value of every channel; the slot of
\* that node has weight 1 and every other slot weight 0.
C5_ExactAtNodes ==
    (WellShaped /\ T \in {"linear", "smooth_step_1", "smooth_step_2"} /\ AtNode) =>
        /\ pc # "error"
        /\ WeightsComputed =>
              /\ \E j \in 1..WindowSize : idx[j] = PaddedFlat(NodeOfQuery)
              /\ \A j \in 1..WindowSize :
                    weights[j] = IF idx[j] = PaddedFlat(NodeOfQuery)
                                 THEN RInt(1) ELSE RInt(0)
        /\ Returned =>
              \A c \in Channels :
                  interpolated_points[c] = RInt(Stored(c, NodeOfQuery))

C5_Witness ==
    /\ WellShaped /\ T = "smooth_step_2" /\ AtNode /\ Returned
    /\ Len(G) = 2 /\ interpolated_points[2] = RInt(10)

-----------------------------------------------------------------------------
(* C6: the weights of a window.                                            *)

\* C6 as stated: for every kernel and every query the window weights sum
\* to 1.
C6_Original == WeightsComputed => RSum(weights) = RInt(1)

\* C6 amended: the weights sum to 1 for every kernel and every query whose
\* window lies on the padded lattice on every axis, which includes every
\* query of the nominal domain.
C6_Amended ==
    /\ (WeightsComputed /\ WindowInside) => RSum(weights) = RInt(1)
    /\ (WellShaped /\ InNominal /\ WeightsComputed)
          => (WindowInside /\ Len(weights) = WindowSize)

C6_Witness ==
    /\ WellShaped /\ WeightsComputed /\ WindowInside /\ ~InNominal
    /\ T = "gaussian" /\ Len(G) = 2 /\ RSum(weights) = RInt(1)

-----------------------------------------------------------------------------
(* C7: the nearest_neighbor kernel.                                        *)

\* floor((query - min) / dx + 1/2)
RoundedNode(a) == (2 * (Q[a] - G[a][1]) + DxOf(G)[a]) \div (2 * DxOf(G)[a])

\* no node of axis a is closer to the query than node i
NearestOnAxis(a, i) ==
    /\ i \in 0..(G[a][3] - 1)
    /\ \A n \in 0..(G[a][3] - 1) :
          Abs(Q[a] - (G[a][1] + i * DxOf(G)[a]))
              <= Abs(Q[a] - (G[a][1] + n * DxOf(G)[a]))

\* the nearest node of axis a, a query midway between two nodes going to
\* node floor((query - min)/dx + 1/2)
NearestNode(a) ==
    IF RoundedNode(a) < 0 THEN 0
    ELSE IF RoundedNode(a) > G[a][3] - 1 THEN G[a][3] - 1
    ELSE RoundedNode(a)

NearestReturned ==
    /\ \A a \in Axes : NearestOnAxis(a, NearestNode(a))
    /\ \A c \in Channels :
          interpolated_points[c]
              = RInt(Stored(c, [a \in Axes |-> NearestNode(a)]))

\* C7 as stated: with nearest_neighbor (stride 1, no padding) the returned
\* value of every channel is the stored value of the node nearest to the
\* query on every axis, a query midway between two nodes going to node
\* floor((query - min)/dx + 1/2).
C7_Original ==
    (WellShaped /\ T = "nearest_neighbor" /\ Returned) => NearestReturned

\* the open per-axis range (min - 3/2 dx, max + 1/2 dx)
InNearestRange ==
    \A a \in Axes :
        /\ 2 * (Q[a] - G[a][1]) > -(3 * DxOf(G)[a])
        /\ 2 * (Q[a] - G[a][2]) < DxOf(G)[a]

\* C7 amended: with nearest_neighbor (stride 1, no padding) every query with
\* each coordinate in (min - 3/2 dx, max + 1/2 dx), the nominal domain
\* included, returns for every channel the stored value of the nearest node
\* on every axis, a query midway between two nodes going to node
\* floor((query - min)/dx + 1/2); a call that returns for a query outside
\* that range has a center index that is no node of its axis.
C7_Amended ==
    /\ (WellShaped /\ T = "nearest_neighbor" /\ (InNearestRange \/ InNominal)) =>
          /\ pc # "error"
          /\ stride # 0 => (stride = 1 /\ stride \div 2 = 0)
          /\ Returned =>
                /\ NearestReturned
                /\ InNominal => \A a \in Axes : NearestNode(a) = RoundedNode(a)
    /\ (WellShaped /\ T = "nearest_neighbor" /\ Returned /\ ~InNearestRange) =>
          \E a \in Axes : center_idx[a] \notin 0..(G[a][3] - 1)

C7_Witness ==
    /\ WellShaped /\ T = "nearest_neighbor" /\ InNominal /\ Returned
    /\ Len(G) = 2
    /\ \A a \in Axes : (2 * (Q[a] - G[a][1])) % (2 * DxOf(G)[a]) = DxOf(G)[a]

-----------------------------------------------------------------------------
(* C8: argument shapes.                                                    *)

\* the context grid's node count differs from the grid's, or the query
\* vector's length differs from the number of axes
ShapeMismatch ==
    \/ Len(Q) # Len(G)
    \/ Numel(Tail(args.context_grid.shape)) # Prod(Resolutions(G))

\* C8: a call with mismatched shapes returns no values and fails before
\* either gather is performed.
C8_ShapeMismatchFails ==
    (pc # "idle" /\ T \in Kernels /\ Len(G) \in {1, 2, 3} /\ ShapeMismatch) =>
        /\ ~Returned
        /\ mesh_grid_idx = <<>>
        /\ context_grid_idx = <<>>

-----------------------------------------------------------------------------
(* C9: the number of axes.                                                 *)

\* C9 as stated: with a number of axes other than 1, 2 or 3 the call
\* returns no values and its error precedes every index computation, the
\* center index included.
C9_Original ==
    (pc # "idle" /\ Len(G) \notin {1, 2, 3}) =>
        /\ ~Returned
        /\ center_idx = <<>>
        /\ idx = <<>>

\* C9 amended: with a number of axes other than 1, 2 or 3 the call returns
\* no values and fails before any window index is computed and before any
\* gather; with four axes the error of the else branch of _grid_knn_idx is
\* raised after the center index has been computed.
C9_Amended ==
    (pc # "idle" /\ Len(G) \notin {1, 2, 3}) =>
        /\ pc \in {"stride", "meshgrid", "pad", "reshape", "center", "window",
                   "error"}
        /\ idx = <<>>
        /\ mesh_grid_idx = <<>>
        /\ context_grid_idx = <<>>
        /\ interpolated_points = <<>>
        /\ err = "RuntimeError: len(grid)"
              => (Len(G) > 3 /\ Len(center_idx) = Len(G))

C9_Witness ==
    /\ pc = "error" /\ err = "RuntimeError: len(grid)"
    /\ Len(G) = 4 /\ Len(center_idx) = 4

-----------------------------------------------------------------------------
(* C10: a query one spacing below the domain.                              *)

\* min - dx <= query < min on a one-axis grid
BelowByOneSpacing ==
    /\ Len(G) = 1
    /\ G[1][1] - DxOf(G)[1] <= Q[1]
    /\ Q[1] < G[1][1]

\* C10: for a stride-2 kernel on a 1D grid a query with min - dx <= x < min
\* returns without error, its window is the zero-padded border node and the
\* first node of the grid, and the value is w_border * 0 + w_first *
\* value(first node); x = -0.1 on {0, 1, 3} is coordinate -2.
C10_BelowDomain ==
    (WellShaped /\ SOf = 2 /\ BelowByOneSpacing) =>
        /\ pc # "error"
        /\ IdxComputed =>
              /\ idx = <<0, 1>>
              /\ idx[2] = PaddedFlat(<<0>>)
              /\ \A c \in Channels : Row(context_grid, 0)[c] = 0
              /\ \A c \in Channels : Row(context_grid, 1)[c] = Stored(c, <<0>>)
        /\ Returned =>
              \A c \in Channels :
                  interpolated_points[c]
                      = RAdd(RMul(weights[1], RInt(0)),
                             RMul(weights[2], RInt(Stored(c, <<0>>))))
        /\ (Returned /\ T = "linear" /\ G = <<ScenarioAxis>> /\ Q = <<-2>>)
              => weights = <<Rat(1, 5), Rat(4, 5)>>

C10_Witness ==
    /\ WellShaped /\ T = "linear" /\ Returned
    /\ G = <<ScenarioAxis>> /\ Q = <<-2>>
    /\ interpolated_points[1] = Rat(28, 5)

-----------------------------------------------------------------------------
(* C11: the sign of the weights.                                           *)

\* C11: for every kernel and every query for which the call returns, every
\* window weight is non-negative (for linear, each per-axis factor being
\* clipped to [0, 1] before the outer product).
C11_NonNegative ==
    (WellShaped /\ Returned) =>
        \A j \in 1..Len(weights) : RLeq(RInt(0), weights[j])

-----------------------------------------------------------------------------
(* C12: the center index.                                                  *)

\* floor((query - padded_start)/dx + frac) on axis a, frac = (S/2) mod 1
FloorCenter(a) ==
    LET start == G[a][1] - KOf * DxOf(G)[a]
    IN  (2 * (Q[a] - start) + (SOf % 2) * DxOf(G)[a]) \div (2 * DxOf(G)[a])

\* C12: for every query coordinate and every stride S the center index of
\* every axis is floor((query - padded_start)/dx + frac), frac = (S/2) mod 1,
\* also when that quantity is negative, and the window spans the per-axis
\* offsets -((S-1)//2) .. S//2 around it.
C12_CenterIsFloor ==
    (WellShaped /\ IdxComputed) =>
        /\ \A a \in Axes : center_idx[a] = FloorCenter(a)
        /\ IdxAdd(SOf) = [i \in 1..SOf |-> LoOff + i - 1]
        /\ IdxAdd(SOf)[SOf] = HiOff
        /\ Len(G) = 1 =>
              idx = [j \in 1..SOf |-> center_idx[1] + IdxAdd(SOf)[j]]

====
